---- MODULE Spec2Model ----
(***************************************************************************)
(* The per-replica epoch state machine of randpiper-rs                     *)
(* (consensus/src/bft/node/reactor.rs), N replicas of which run over an    *)
(* asynchronous network.  A replica is its Context (cx), the reactor's     *)
(* locals (epoch, phase) and whether its event loop still runs (alive: a   *)
(* Rust panic ends the loop).  Every handler is a pure operator over a     *)
(* record s = [cx, epoch, phase, out, ok] that is threaded through the     *)
(* statements of the handler in source order.                              *)
(***************************************************************************)
EXTENDS Integers, Sequences, FiniteSets, TLC

VARIABLES
    cx,      \* cx[r]: the Context of replica r (context.rs, fields used by reactor.rs)
    epoch,   \* epoch[r]: reactor local `epoch`
    phase,   \* phase[r]: reactor local `phase`
    alive,   \* alive[r]: FALSE once the reactor of r has panicked
    out,     \* out[r]: the (destination, msg) pairs the last handler of r put on net_send
    net,     \* every (src, dst, msg) a correct replica has sent so far
    byz,     \* the Byzantine replicas
    up,      \* the correct replicas whose reactor has been started
    listen,  \* the kinds of message that reach a replica in this run (the rest stay in flight)
    horizon, \* the run is cut at the End handler that would leave this epoch
    craft,   \* craft[r]: the messages the Byzantine replicas address to r in this run
    sent,    \* sent[r][k]: how many messages of kind k replica r has put on net_send in its current epoch (up to MaxSent)
    bc,      \* the beacon loop of one End handler: the reconstructed values, those folded so far, the accumulator
    tp,      \* the transport of one replica: the dispatch task of start.rs and the tasks of each Peer
    end_vals, \* end_vals[r]: the local `vals` of the last handler of r, the values its End arm reconstructed
    clk,     \* the clock, in units of delta: whether it runs, the time, deadline[r] of phase_end
    chn      \* which of the reactor's inbound channels are closed, and what recv() has returned since

cvars == <<cx, epoch, phase, alive, out, net, byz, up, listen, horizon, craft, sent, end_vals, clk, chn>>

vars == <<cx, epoch, phase, alive, out, net, byz, up, listen, horizon, craft, sent, bc, tp, end_vals, clk, chn>>

----------------------------------------------------------------------------
(* Configuration and bounds *)

N == 3                      \* config.num_nodes
F == 1                      \* config.num_faults
MaxEpoch == 2               \* horizon of a run of one replica
MaxQueue == 2               \* cap on the length of a reconstruct_queue
MaxVotes == 3               \* cap on the length of received_vote
MaxAcks == 1                \* cap on the length of received_ack
MaxRotate == 3              \* horizon of the run that follows the leader around the ring
HashBits == 3               \* width of a hash in the beacon loop (32 bytes in the program)
MaxVals == 3                \* cap on the number of reconstructed values of an epoch
NumValues == 3              \* number of distinct reconstructed values
MaxSent == 2                \* the per-epoch send counts stop counting here
MaxTime == 14               \* the clock stops here, in units of delta (an epoch lasts 11)
MaxMsgs == 3                \* number of (destination, msg) pairs the reactor hands to the transport
ChanCap == 2                \* capacity of every bounded channel of the transport (util::CHANNEL_SIZE)

Replica == 0 .. (N - 1)

None == <<>>
Some(x) == <<x>>

Max(a, b) == IF a >= b THEN a ELSE b

----------------------------------------------------------------------------
(* Hashes, blocks, votes, certificates *)

EMPTY_HASH == <<>>

\* Block::update_hash: the hash of the serialized header and body.
HashOf(b) == <<b.prev, b.author, b.height, b.acks, b.commits>>

update_hash(b) == [b EXCEPT !.hash = HashOf(b)]

GENESIS_BLOCK ==
    [prev |-> EMPTY_HASH, author |-> 0, height |-> 0,
     acks |-> <<>>, commits |-> <<>>, hash |-> EMPTY_HASH]

empty_cert == [votes |-> <<>>]

\* A vote signed by `origin` over msg; ok says whether auth verifies under
\* origin's public key.
MkVote(msg, origin, ok) == [msg |-> msg, origin |-> origin, ok |-> ok]

----------------------------------------------------------------------------
(* Dispersal: shard codec, authenticators, gatherer *)

\* get_sign: the dispersal authenticator of `data`, made with the keys of `signer`.
get_sign(signer, data) == [signer |-> signer, of |-> data]

\* to_shards(bytes, N, f)[i]
to_shards(data) == [i \in Replica |-> [of |-> data, idx |-> i]]

NewGatherer == [shards |-> <<>>, senders |-> {}, shard_num |-> 0, authenticator |-> None]

\* The shard verifies as share `sender` of the dispersal `auth`, authored by `author`.
VerifyShard(shard, sender, author, auth) ==
    /\ auth.signer = author
    /\ shard.of = auth.of
    /\ shard.idx = sender

\* add_share without the test for a sender that already contributed.
add_share_again(g, shard, sender, author, auth) ==
    LET g1 == IF g.authenticator = None
              THEN [g EXCEPT !.authenticator = Some(auth)]
              ELSE g
    IN  IF g1.authenticator # Some(auth) THEN g1
        ELSE IF ~VerifyShard(shard, sender, author, auth) THEN g1
        ELSE [g1 EXCEPT !.shards = Append(@, shard),
                        !.senders = @ \cup {sender},
                        !.shard_num = @ + 1]

add_share(g, shard, sender, author, auth) ==
    LET g1 == IF g.authenticator = None
              THEN [g EXCEPT !.authenticator = Some(auth)]
              ELSE g
    IN  IF g1.authenticator # Some(auth) THEN g1
        ELSE IF ~VerifyShard(shard, sender, author, auth) THEN g1
        ELSE IF sender \in g1.senders THEN g1
        ELSE [g1 EXCEPT !.shards = Append(@, shard),
                        !.senders = @ \cup {sender},
                        !.shard_num = @ + 1]

\* Gatherer::reconstruct(N, f): Some(payload) exactly when shard_num >= N - f.
reconstruct(g) ==
    IF g.shard_num >= N - F THEN Some(g.shards[1].of) ELSE None

\* util::io::to_bytes / flexbuffers: the serialized form carries what was serialized.
to_bytes(kind, x) == [kind |-> kind, v |-> x]

\* Propose::from_bytes, commit_from_bytes: Some(value), or None where expect() panics.
from_bytes(kind, d) == IF d.kind = kind THEN Some(d.v) ELSE None

----------------------------------------------------------------------------
(* Context *)

\* Context::new
\* let begin = time::Instant::now() + Duration::from_millis(delta), the reactor
\* starting at time 0
begin == 1

NewContext ==
    [last_leader |-> 0,
     highest_cert |-> empty_cert,
     highest_height |-> -1,
     by_hash |-> [h \in {GENESIS_BLOCK.hash} |-> GENESIS_BLOCK],
     by_ht |-> [h \in {0} |-> GENESIS_BLOCK],
     last_seen_cert |-> empty_cert,
     received_propose |-> None, received_propose_sign |-> None,
     received_certificate |-> None, received_certificate_sign |-> None,
     received_commit |-> None, received_commit_sign |-> None,
     received_vote |-> <<>>, received_ack |-> <<>>,
     propose_gatherer |-> NewGatherer,
     vote_cert_gatherer |-> NewGatherer,
     commit_gatherer |-> NewGatherer,
     propose_share_sent |-> FALSE,
     vote_cert_share_sent |-> FALSE,
     commit_share_sent |-> FALSE,
     reconstruct_queue |-> [i \in Replica |-> <<>>],
     rand_beacon_queue |-> [i \in Replica |-> <<>>],
     shards |-> [i \in Replica |-> <<>>],
     commits |-> <<>>]

\* The successor without the wrap-around.
next_of_nowrap(prev) == prev + 1

next_of(prev) == (prev + 1) % N

next_leader(c) == next_of(c.last_leader)

\* HashMap::insert
Insert(m, k, v) == [x \in DOMAIN m \cup {k} |-> IF x = k THEN v ELSE m[x]]

----------------------------------------------------------------------------
(* Statements shared by the handlers *)

\* cx.net_send.send((dst, msg))
Send(s, dst, msg) == [s EXCEPT !.out = Append(@, [dst |-> dst, msg |-> msg])]

\* unwrap() of None, expect() of a decode error
Panic(s) == [s EXCEPT !.ok = FALSE]

RECURSIVE SendShards(_, _, _, _, _, _)
\* for i in 0..num_nodes { if i != myid { send((num_nodes, DeliverX(shards[i], i, sign))) } }
SendShards(s, type, shards, sign, myid, i) ==
    IF i = N THEN s
    ELSE SendShards(
            IF i # myid
            THEN Send(s, N, [type |-> type, sh |-> shards[i], n |-> i, z |-> sign])
            ELSE s,
            type, shards, sign, myid, i + 1)

deliver_propose(s, myid) ==
    IF s.cx.received_propose = None \/ s.cx.received_propose_sign = None THEN Panic(s)
    ELSE
    LET sign == s.cx.received_propose_sign[1]
        shards == to_shards(to_bytes("Propose", s.cx.received_propose[1]))
        s1 == [s EXCEPT !.cx.propose_gatherer =
                 add_share(@, shards[myid], myid, s.cx.last_leader, sign)]
        s2 == SendShards(s1, "DeliverPropose", shards, sign, myid, 0)
        s3 == Send(s2, N, [type |-> "DeliverPropose", sh |-> shards[myid], n |-> myid, z |-> sign])
    IN  [s3 EXCEPT !.cx.propose_share_sent = TRUE]

deliver_vote_cert(s, myid) ==
    IF s.cx.received_certificate = None \/ s.cx.received_certificate_sign = None THEN Panic(s)
    ELSE
    LET sign == s.cx.received_certificate_sign[1]
        shards == to_shards(to_bytes("Certificate", s.cx.received_certificate[1]))
        s1 == [s EXCEPT !.cx.vote_cert_gatherer =
                 add_share(@, shards[myid], myid, s.cx.last_leader, sign)]
        s2 == SendShards(s1, "DeliverVoteCert", shards, sign, myid, 0)
        s3 == Send(s2, N, [type |-> "DeliverVoteCert", sh |-> shards[myid], n |-> myid, z |-> sign])
    IN  [s3 EXCEPT !.cx.vote_cert_share_sent = TRUE]

deliver_commit(s, myid) ==
    IF s.cx.received_commit = None \/ s.cx.received_commit_sign = None THEN Panic(s)
    ELSE
    LET sign == s.cx.received_commit_sign[1]
        shards == to_shards(to_bytes("Commits", s.cx.received_commit[1]))
        s1 == [s EXCEPT !.cx.propose_gatherer =
                 add_share(@, shards[myid], myid, next_leader(s.cx), sign)]
        s2 == SendShards(s1, "DeliverCommit", shards, sign, myid, 0)
        s3 == Send(s2, N, [type |-> "DeliverCommit", sh |-> shards[myid], n |-> myid, z |-> sign])
    IN  [s3 EXCEPT !.cx.commit_share_sent = TRUE]

----------------------------------------------------------------------------
(* The reactor: inbound protocol messages *)

\* The Certificate handler without the test of leadership and phase.
OnCertificateAnyPhase(s, myid, p) ==
    LET hash == IF Len(p.votes) = 0 THEN EMPTY_HASH ELSE p.votes[1].msg
    IN  IF hash \in DOMAIN s.cx.by_hash
           /\ s.cx.by_hash[hash].height > s.cx.highest_height
        THEN [s EXCEPT !.cx.highest_cert = p,
                       !.cx.highest_height = s.cx.by_hash[hash].height]
        ELSE s

\* The Certificate handler without the comparison of heights.
OnCertificateAnyHeight(s, myid, p) ==
    IF myid = s.cx.last_leader /\ s.phase = "Propose"
    THEN LET hash == IF Len(p.votes) = 0 THEN EMPTY_HASH ELSE p.votes[1].msg
         IN  IF hash \in DOMAIN s.cx.by_hash
             THEN [s EXCEPT !.cx.highest_cert = p,
                            !.cx.highest_height = s.cx.by_hash[hash].height]
             ELSE s
    ELSE s

OnCertificate(s, myid, p) ==
    IF myid = s.cx.last_leader /\ s.phase = "Propose"
    THEN LET hash == IF Len(p.votes) = 0 THEN EMPTY_HASH ELSE p.votes[1].msg
         IN  IF hash \in DOMAIN s.cx.by_hash
                /\ s.cx.by_hash[hash].height > s.cx.highest_height
             THEN [s EXCEPT !.cx.highest_cert = p,
                            !.cx.highest_height = s.cx.by_hash[hash].height]
             ELSE s
    ELSE s

OnPropose(s, myid, p, z) ==
    [s EXCEPT !.cx.received_propose = Some(p),
              !.cx.received_propose_sign = Some(z)]

\* The Vote handler forming a certificate at every vote from the f+1-th on.
OnVoteAtLeast(s, myid, p) ==
    LET s1 == [s EXCEPT !.cx.received_vote = Append(@, p)]
    IN  IF Len(s1.cx.received_vote) >= F + 1
        THEN LET certificate == [votes |-> s1.cx.received_vote]
                 sign == get_sign(myid, to_bytes("Certificate", certificate))
                 s2 == Send(s1, N, [type |-> "VoteCert", c |-> certificate, z |-> sign])
                 s3 == [s2 EXCEPT !.cx.received_certificate = Some(certificate),
                                  !.cx.received_certificate_sign = Some(sign)]
                 s4 == deliver_vote_cert(s3, myid)
             IN  [s4 EXCEPT !.phase = "Commit"]
        ELSE s1

OnVote(s, myid, p) ==
    LET s1 == [s EXCEPT !.cx.received_vote = Append(@, p)]
    IN  IF Len(s1.cx.received_vote) = F + 1
        THEN LET certificate == [votes |-> s1.cx.received_vote]
                 sign == get_sign(myid, to_bytes("Certificate", certificate))
                 s2 == Send(s1, N, [type |-> "VoteCert", c |-> certificate, z |-> sign])
                 s3 == [s2 EXCEPT !.cx.received_certificate = Some(certificate),
                                  !.cx.received_certificate_sign = Some(sign)]
                 s4 == deliver_vote_cert(s3, myid)
             IN  [s4 EXCEPT !.phase = "Commit", !.deadline = s.now + 2]
        ELSE s1

OnVoteCert(s, myid, c, z) ==
    LET s1 == [s EXCEPT !.cx.received_certificate = Some(c),
                        !.cx.received_certificate_sign = Some(z)]
        s2 == deliver_vote_cert(s1, myid)
    IN  [s2 EXCEPT !.phase = "Commit", !.deadline = s.now + 2]

OnDeliverPropose(s, myid, sh, n, z) ==
    LET s1 == IF ~s.cx.propose_share_sent /\ n = myid
              THEN [Send(s, N, [type |-> "DeliverPropose", sh |-> sh, n |-> myid, z |-> z])
                      EXCEPT !.cx.propose_share_sent = TRUE]
              ELSE s
    IN  [s1 EXCEPT !.cx.propose_gatherer = add_share(@, sh, n, s.cx.last_leader, z)]

OnDeliverVoteCert(s, myid, sh, n, z) ==
    LET s1 == IF ~s.cx.vote_cert_share_sent /\ n = myid
              THEN [Send(s, N, [type |-> "DeliverVoteCert", sh |-> sh, n |-> myid, z |-> z])
                      EXCEPT !.cx.vote_cert_share_sent = TRUE]
              ELSE s
    IN  [s1 EXCEPT !.cx.vote_cert_gatherer = add_share(@, sh, n, s.cx.last_leader, z)]

\* The Reconstruct handler without the comparison of epochs.
OnReconstructAlways(s, myid, sh, n, e) ==
    [s EXCEPT !.cx.reconstruct_queue[n] = Append(@, <<sh, e>>)]

OnReconstruct(s, myid, sh, n, e) ==
    LET q == s.cx.reconstruct_queue[n]
    IN  IF Len(q) = 0 \/ e >= q[Len(q)][2]
        THEN [s EXCEPT !.cx.reconstruct_queue[n] = Append(@, <<sh, e>>)]
        ELSE s

OnCommit(s, myid, sh, c, z) ==
    [s EXCEPT !.cx.rand_beacon_queue[next_leader(s.cx)] = @ \o sh,
              !.cx.received_commit = Some(c),
              !.cx.received_commit_sign = Some(z)]

OnDeliverCommit(s, myid, sh, n, z) ==
    LET s1 == IF ~s.cx.commit_share_sent /\ n = myid
              THEN [Send(s, N, [type |-> "DeliverCommit", sh |-> sh, n |-> myid, z |-> z])
                      EXCEPT !.cx.commit_share_sent = TRUE]
              ELSE s
        s2 == [s1 EXCEPT !.cx.commit_gatherer = add_share(@, sh, n, next_leader(s.cx), z)]
    IN  IF s2.cx.commit_gatherer.shard_num = N - F
        THEN LET bytes == reconstruct(s2.cx.commit_gatherer)
                 reconstructed_commit == from_bytes("Commits", bytes[1])
             IN  IF reconstructed_commit = None THEN Panic(s2)
                 ELSE IF myid # next_leader(s2.cx)
                 THEN Send(s2, next_leader(s2.cx),
                           [type |-> "Ack",
                            v |-> MkVote(<<"commits", reconstructed_commit[1]>>, myid, TRUE)])
                 ELSE s2
        ELSE s2

OnAck(s, myid, v) ==
    [s EXCEPT !.cx.received_ack = Append(@, v)]

----------------------------------------------------------------------------
(* The reactor: the phase_end timer *)

\* The Propose handler clearing received_ack before it builds the block.
PhaseProposeAcksLost(s, myid) ==
    LET prev == IF Len(s.cx.highest_cert.votes) = 0 THEN EMPTY_HASH
                ELSE s.cx.highest_cert.votes[1].msg
        s1 == [s EXCEPT !.cx.received_ack = <<>>]
        new_block == update_hash(
            [prev |-> prev, author |-> myid, height |-> s.cx.highest_height + 1,
             acks |-> s1.cx.received_ack, commits |-> s.cx.commits, hash |-> EMPTY_HASH])
        propose == [new_block |-> new_block, certificate |-> s.cx.highest_cert,
                    epoch |-> s.epoch]
        sign == get_sign(myid, to_bytes("Propose", propose))
        s2 == Send(s1, N, [type |-> "Propose", p |-> propose, z |-> sign])
        s3 == [s2 EXCEPT !.cx.received_propose = Some(propose),
                         !.cx.received_propose_sign = Some(sign)]
        s4 == deliver_propose(s3, myid)
    IN  [s4 EXCEPT !.phase = "DeliverCommit"]

PhasePropose(s, myid) ==
    LET prev == IF Len(s.cx.highest_cert.votes) = 0 THEN EMPTY_HASH
                ELSE s.cx.highest_cert.votes[1].msg
        new_block == update_hash(
            [prev |-> prev, author |-> myid, height |-> s.cx.highest_height + 1,
             acks |-> s.cx.received_ack, commits |-> s.cx.commits, hash |-> EMPTY_HASH])
        s1 == [s EXCEPT !.cx.received_ack = <<>>]
        propose == [new_block |-> new_block, certificate |-> s.cx.highest_cert,
                    epoch |-> s.epoch]
        sign == get_sign(myid, to_bytes("Propose", propose))
        s2 == Send(s1, N, [type |-> "Propose", p |-> propose, z |-> sign])
        s3 == [s2 EXCEPT !.cx.received_propose = Some(propose),
                         !.cx.received_propose_sign = Some(sign)]
        s4 == deliver_propose(s3, myid)
    IN  [s4 EXCEPT !.phase = "DeliverCommit",
                   !.deadline = begin + 11 * (s.epoch - 1) + 8]

PhaseDeliverPropose(s, myid) ==
    LET s1 == deliver_propose(s, myid)
    IN  IF s1.ok
        THEN [s1 EXCEPT !.phase = "DeliverCommit",
                        !.deadline = begin + 11 * (s.epoch - 1) + 8]
        ELSE s1

\* The DeliverCommit handler sending the leader to phase Vote too.
PhaseDeliverCommitAllVote(s, myid) ==
    LET s1 == IF s.cx.received_commit # None THEN deliver_commit(s, myid) ELSE s
    IN  IF ~s1.ok THEN s1
        ELSE [s1 EXCEPT !.phase = "Vote"]

PhaseDeliverCommit(s, myid) ==
    LET s1 == IF s.cx.received_commit # None THEN deliver_commit(s, myid) ELSE s
    IN  IF ~s1.ok THEN s1
        ELSE IF myid = s1.cx.last_leader
        THEN [s1 EXCEPT !.phase = "End", !.deadline = begin + 11 * s.epoch]
        ELSE [s1 EXCEPT !.phase = "Vote", !.deadline = s.now + 1]

\* The Vote handler voting on the hash field as it was received.
PhaseVoteStaleHash(s, myid) ==
    LET bytes == reconstruct(s.cx.propose_gatherer)
        propose == IF bytes = None THEN None ELSE from_bytes("Propose", bytes[1])
    IN  IF propose = None THEN Panic(s)
        ELSE LET block == propose[1].new_block
                 vote == MkVote(block.hash, myid, TRUE)
                 s1 == Send(s, s.cx.last_leader, [type |-> "Vote", v |-> vote])
             IN  [s1 EXCEPT !.phase = "End"]

PhaseVote(s, myid) ==
    LET bytes == reconstruct(s.cx.propose_gatherer)
        propose == IF bytes = None THEN None ELSE from_bytes("Propose", bytes[1])
    IN  IF propose = None THEN Panic(s)
        ELSE LET block == update_hash(propose[1].new_block)
                 vote == MkVote(block.hash, myid, TRUE)
                 s1 == Send(s, s.cx.last_leader, [type |-> "Vote", v |-> vote])
             IN  [s1 EXCEPT !.phase = "End", !.deadline = begin + 11 * s.epoch]

PhaseCommit(s, myid) ==
    LET bytes == reconstruct(s.cx.propose_gatherer)
        propose == IF bytes = None THEN None ELSE from_bytes("Propose", bytes[1])
    IN  IF propose = None THEN Panic(s)
        ELSE LET new_block == propose[1].new_block
             IN  [s EXCEPT !.cx.by_hash = Insert(@, new_block.hash, new_block),
                           !.cx.by_ht = Insert(@, new_block.height, new_block),
                           !.cx.received_propose = None,
                           !.cx.received_propose_sign = None,
                           !.cx.received_certificate = None,
                           !.cx.received_certificate_sign = None,
                           !.phase = "End",
                           !.deadline = begin + 11 * s.epoch]

\* The EVSS share of polynomial k that `dealer` staged in epoch e for replica j.
Share(dealer, e, k, j) == <<dealer, e, k, j>>

\* crypto::hash::ser_and_hash of a serialized value, HashBits wide.
ser_and_hash(v) == (5 * v + 3) % (2 ^ HashBits)

RECURSIVE Xor(_, _, _)
\* a ^ b on the low `bits` bits
Xor(a, b, bits) ==
    IF bits = 0 THEN 0
    ELSE (((a % 2) + (b % 2)) % 2) + 2 * Xor(a \div 2, b \div 2, bits - 1)

\* The accumulator shifted before the update is folded in.
MixShifted(hash, update) == Xor((2 * hash) % (2 ^ HashBits), update, HashBits)

\* for i in 0..32 { hash[i] ^= update[i]; }
Mix(hash, update) == Xor(hash, update, HashBits)

RECURSIVE Fold(_, _)
\* for val in vals { ...; hash ^= ser_and_hash(&buf) }
Fold(hash, vals) ==
    IF Len(vals) = 0 THEN hash
    ELSE Fold(Mix(hash, ser_and_hash(Head(vals))), Tail(vals))

\* let mut hash = [0 as u8; 32]; the loop over vals
Beacon(vals) == Fold(0, vals)

RECURSIVE DropWhile(_, _, _)
\* while !q.is_empty() && q.front().1 < epoch { q.pop_front() }    (lt)
\* while !q.is_empty() && q.front().1 == epoch { vec.push(q.pop_front()) }
DropWhile(q, e, lt) ==
    IF Len(q) > 0 /\ (IF lt THEN q[1][2] < e ELSE q[1][2] = e)
    THEN DropWhile(Tail(q), e, lt) ELSE q

RECURSIVE Collect(_, _)
\* while front().1 == epoch { vec.push(pop_front().0) }: the shares pushed
Collect(q, e) ==
    IF Len(q) > 0 /\ q[1][2] = e THEN <<q[1][1]>> \o Collect(Tail(q), e) ELSE <<>>

\* crypto::EVSS381::reconstruct(&vec): a value fixed by the shares it is made of
evss_reconstruct(vec) == [of |-> vec]

\* The loop over the authors pushing a value for every author, however few
\* shares were collected.
EndValsAny(queue, e, i) ==
    [k \in 1 .. N |-> evss_reconstruct(Collect(DropWhile(queue[k - 1], e, TRUE), e))]

RECURSIVE EndVals(_, _, _)
\* for i in 0..num_nodes { ...; if vec.len() >= num_nodes - num_faults { vals.push(..) } }
EndVals(queue, e, i) ==
    IF i = N THEN <<>>
    ELSE LET vec == Collect(DropWhile(queue[i], e, TRUE), e)
         IN  (IF Len(vec) >= N - F THEN <<evss_reconstruct(vec)>> ELSE <<>>)
                \o EndVals(queue, e, i + 1)

RECURSIVE SendCommitsAll(_, _, _, _)
\* The Commit loop without the test myid != i.
SendCommitsAll(s, sign, myid, i) ==
    IF i = N THEN s
    ELSE SendCommitsAll(
            Send(s, i, [type |-> "Commit", sh |-> s.cx.shards[i],
                        c |-> s.cx.commits, z |-> sign]),
            sign, myid, i + 1)

RECURSIVE SendCommits(_, _, _, _)
\* for i in 0..num_nodes { if myid != i { send((i, Commit(shards[i], commits, sign))) } }
SendCommits(s, sign, myid, i) ==
    IF i = N THEN s
    ELSE SendCommits(
            IF myid # i
            THEN Send(s, i, [type |-> "Commit", sh |-> s.cx.shards[i],
                             c |-> s.cx.commits, z |-> sign])
            ELSE s,
            sign, myid, i + 1)

RECURSIVE SendReconstruct(_, _)
\* for i in 0..num_nodes { pop the front of rand_beacon_queue[i], broadcast it }
SendReconstruct(s, i) ==
    IF i = N THEN s
    ELSE LET q == s.cx.rand_beacon_queue[i]
         IN  SendReconstruct(
                IF Len(q) > 0
                THEN Send([s EXCEPT !.cx.rand_beacon_queue[i] = Tail(q)], N,
                          [type |-> "Reconstruct", sh |-> q[1], n |-> i, e |-> s.epoch])
                ELSE s,
                i + 1)

\* Shard generation of the replica that leads the next epoch.
StageShards(s, myid) ==
    LET s1 == [s EXCEPT !.cx.shards =
                    [j \in Replica |-> [k \in 1 .. N |-> Share(myid, s.epoch, k, j)]],
                        !.cx.commits = [k \in 1 .. N |-> <<myid, s.epoch, k>>]]
        sign == get_sign(myid, to_bytes("Commits", s1.cx.commits))
        s2 == [s1 EXCEPT !.cx.rand_beacon_queue[myid] = @ \o s1.cx.shards[myid]]
        s3 == SendCommits(s2, sign, myid, 0)
    IN  [s3 EXCEPT !.cx.received_commit = Some(s3.cx.commits),
                   !.cx.received_commit_sign = Some(sign)]

\* The End handler that keeps received_vote across the epoch boundary.
PhaseEndKeepVotes(s, myid) ==
    LET drained == [i \in Replica |->
                      DropWhile(DropWhile(s.cx.reconstruct_queue[i], s.epoch, TRUE),
                                s.epoch, FALSE)]
        s1 == [s EXCEPT !.cx.reconstruct_queue = drained,
                        !.cx.last_leader = next_leader(s.cx),
                        !.epoch = @ + 1,
                        !.cx.propose_gatherer = NewGatherer,
                        !.cx.vote_cert_gatherer = NewGatherer,
                        !.cx.commit_gatherer = NewGatherer,
                        !.cx.propose_share_sent = FALSE,
                        !.cx.vote_cert_share_sent = FALSE,
                        !.cx.commit_share_sent = FALSE]
        s2 == IF myid # s1.cx.last_leader
              THEN LET a == Send(s1, s1.cx.last_leader,
                                 [type |-> "Certificate", c |-> s1.cx.last_seen_cert])
                       b == [a EXCEPT !.phase = "DeliverPropose"]
                   IN  IF myid = next_leader(b.cx) THEN StageShards(b, myid) ELSE b
              ELSE [s1 EXCEPT !.phase = "Propose"]
    IN  SendReconstruct(s2, 0)

PhaseEnd(s, myid) ==
    LET drained == [i \in Replica |->
                      DropWhile(DropWhile(s.cx.reconstruct_queue[i], s.epoch, TRUE),
                                s.epoch, FALSE)]
        s1 == [s EXCEPT !.vals = EndVals(s.cx.reconstruct_queue, s.epoch, 0),
                        !.cx.reconstruct_queue = drained,
                        !.cx.last_leader = next_leader(s.cx),
                        !.epoch = @ + 1,
                        !.cx.propose_gatherer = NewGatherer,
                        !.cx.vote_cert_gatherer = NewGatherer,
                        !.cx.commit_gatherer = NewGatherer,
                        !.cx.received_vote = <<>>,
                        !.cx.propose_share_sent = FALSE,
                        !.cx.vote_cert_share_sent = FALSE,
                        !.cx.commit_share_sent = FALSE]
        s2 == IF myid # s1.cx.last_leader
              THEN LET a == Send(s1, s1.cx.last_leader,
                                 [type |-> "Certificate", c |-> s1.cx.last_seen_cert])
                       b == [a EXCEPT !.phase = "DeliverPropose",
                                     !.deadline = begin + 11 * (s1.epoch - 1) + 7]
                   IN  IF myid = next_leader(b.cx) THEN StageShards(b, myid) ELSE b
              ELSE [s1 EXCEPT !.phase = "Propose", !.deadline = s.now + 2]
    IN  SendReconstruct(s2, 0)

----------------------------------------------------------------------------
(* What a Byzantine replica b can put on the wire.  It signs anything with  *)
(* its own keys and forwards whatever it has seen; it cannot make the       *)
(* authenticator or the vote of a correct replica.                          *)

\* A well-formed block at height 1 on top of genesis.
ByzBlockA(b) ==
    update_hash([prev |-> GENESIS_BLOCK.hash, author |-> b, height |-> 1,
                 acks |-> <<>>, commits |-> <<>>, hash |-> EMPTY_HASH])

\* A second block for the same height: its prev is not the genesis hash and
\* its hash field was never filled in (Block::new leaves EMPTY_HASH).
ByzBlockB(b) ==
    [prev |-> ByzBlockA(b).hash, author |-> b, height |-> 1,
     acks |-> <<>>, commits |-> <<>>, hash |-> EMPTY_HASH]

ByzProposes(b) ==
    {[new_block |-> blk, certificate |-> empty_cert, epoch |-> 1] :
        blk \in {ByzBlockA(b), ByzBlockB(b)}}

ByzVotes(b) == {MkVote(ByzBlockA(b).hash, b, ok) : ok \in BOOLEAN}

ByzCert(b) == [votes |-> <<MkVote(ByzBlockA(b).hash, b, TRUE)>>]

\* The same certificate with a vote whose signature does not verify.
ByzBadCert(b) == [votes |-> <<MkVote(ByzBlockA(b).hash, b, FALSE)>>]

ByzCommits(b) == [k \in 1 .. N |-> <<b, 0, k>>]

ByzCraftedBy(b) ==
    {[type |-> "Propose", p |-> p, z |-> get_sign(b, to_bytes("Propose", p))] :
        p \in ByzProposes(b)}
    \cup {[type |-> "DeliverPropose", sh |-> to_shards(to_bytes("Propose", p))[n], n |-> n,
           z |-> get_sign(b, to_bytes("Propose", p))] : p \in ByzProposes(b), n \in Replica}
    \cup {[type |-> "Vote", v |-> v] : v \in ByzVotes(b)}
    \cup {[type |-> "Certificate", c |-> c] : c \in {empty_cert, ByzCert(b), ByzBadCert(b)}}
    \cup {[type |-> "VoteCert", c |-> ByzCert(b),
           z |-> get_sign(b, to_bytes("Certificate", ByzCert(b)))]}
    \cup {[type |-> "DeliverVoteCert",
           sh |-> to_shards(to_bytes("Certificate", ByzCert(b)))[n], n |-> n,
           z |-> get_sign(b, to_bytes("Certificate", ByzCert(b)))] : n \in Replica}
    \cup {[type |-> "Commit", sh |-> [k \in 1 .. N |-> Share(b, 0, k, j)],
           c |-> ByzCommits(b),
           z |-> get_sign(b, to_bytes("Commits", ByzCommits(b)))] : j \in Replica}
    \cup {[type |-> "DeliverCommit",
           sh |-> to_shards(to_bytes("Commits", ByzCommits(b)))[n], n |-> n,
           z |-> get_sign(b, to_bytes("Commits", ByzCommits(b)))] : n \in Replica}
    \cup {[type |-> "Reconstruct", sh |-> Share(b, 0, 1, b), n |-> b, e |-> e] :
           e \in 0 .. MaxEpoch}
    \cup {[type |-> "Ack", v |-> MkVote(<<"commits", ByzCommits(b)>>, b, TRUE)]}

ByzCrafted == [b \in Replica |-> ByzCraftedBy(b)]

\* The messages net_recv of replica r can yield: those sent to r (or broadcast)
\* by another replica, delivered after any delay and any number of times, those
\* a Byzantine replica saw and forwards, and those it crafted.
Deliverable(r, kind) ==
    {e.msg : e \in {x \in net : /\ x.msg.type = kind
                                /\ \/ x.src # r /\ x.dst \in {r, N}
                                   \/ x.dst \in byz \cup {N}}}
    \cup {m \in craft[r] : m.type = kind}

----------------------------------------------------------------------------
(* Actions *)

\* The traffic that reaches the replica in a run: the proposal dispersal with
\* the certificate (follower), with the votes (leader), the commit dispersal,
\* the beacon shares.
Scenarios ==
    {{"DeliverPropose", "VoteCert", "Certificate"},
     {"Propose", "DeliverPropose", "VoteCert"},
     {"DeliverPropose", "Vote"},
     {"Commit", "DeliverCommit", "Ack"},
     {"Reconstruct", "DeliverVoteCert"}}

Range(q) == {q[i] : i \in DOMAIN q}

\* The kinds of message whose sends are counted per epoch.
Counted == {"Vote", "VoteCert", "Ack"}

\* The number of messages of kind k in a handler's output.
Count(o, k) == Cardinality({i \in DOMAIN o : o[i].msg.type = k})

\* enum Phase
Phases == {"Propose", "DeliverPropose", "DeliverCommit", "Vote", "Commit", "End"}

\* One Peer before any message: its send channel (recv_out), the locals
\* `buffers` and `ready` of the buffering task, the batch that task is sending
\* to internal_ch_out, the two internal channels, the writer task's position,
\* what has been written to the socket.
NewPeer ==
    [chan |-> <<>>, buffers |-> <<>>, ready |-> TRUE, hold |-> None,
     ich_out |-> <<>>, ich_in |-> 0, wpc |-> "recv", socket |-> <<>>]

NoTransport ==
    [me |-> 0, order |-> <<>>, next |-> 1, wr |-> <<>>, cur |-> None, hist |-> <<>>,
     handed |-> [p \in Replica |-> <<>>], peer |-> [p \in Replica |-> NewPeer]]

NoBeacon == [vals |-> <<>>, folded |-> {}, hash |-> 0]

NoneSent == [r \in Replica |-> [k \in Counted |-> 0]]

NoVals == [r \in Replica |-> <<>>]

NoClock == [on |-> FALSE, now |-> 0, deadline |-> [r \in Replica |-> begin]]

NoChannels == [net_closed |-> FALSE, cli_closed |-> FALSE, cli_none |-> FALSE]

Cur(r) ==
    [cx |-> cx[r], epoch |-> epoch[r], phase |-> phase[r], out |-> <<>>, ok |-> TRUE,
     vals |-> <<>>, now |-> clk.now, deadline |-> clk.deadline[r]]

\* One iteration of the select! loop of replica r, ending in state s.
Step(r, s, recv) ==
    /\ cx' = [cx EXCEPT ![r] = s.cx]
    /\ epoch' = [epoch EXCEPT ![r] = s.epoch]
    /\ phase' = [phase EXCEPT ![r] = s.phase]
    /\ alive' = [alive EXCEPT ![r] = s.ok]
    /\ out' = [out EXCEPT ![r] = s.out]
    /\ net' = net \cup {[src |-> r, dst |-> o.dst, msg |-> o.msg] : o \in Range(s.out)}
    /\ sent' = [sent EXCEPT ![r] =
                  [k \in Counted |->
                     LET c == (IF s.epoch = epoch[r] THEN sent[r][k] ELSE 0) + Count(s.out, k)
                     IN  IF c > MaxSent THEN MaxSent ELSE c]]
    /\ end_vals' = [end_vals EXCEPT ![r] = s.vals]
    /\ clk' = IF clk.on THEN [clk EXCEPT !.deadline[r] = s.deadline] ELSE clk
    /\ UNCHANGED <<byz, up, listen, horizon, craft, bc, tp, chn>>

CanRecv(r, type) == r \in up /\ alive[r] /\ type \in listen
\* _ = &mut phase_end: the timer arm is ready from the deadline on
CanFire(r, ph) ==
    /\ r \in up /\ alive[r] /\ phase[r] = ph
    /\ clk.on => clk.now >= clk.deadline[r]

RecvCertificate(r) ==
    /\ CanRecv(r, "Certificate")
    /\ \E m \in Deliverable(r, "Certificate") :
          /\ Step(r, OnCertificate(Cur(r), r, m.c), TRUE)

RecvPropose(r) ==
    /\ CanRecv(r, "Propose")
    /\ \E m \in Deliverable(r, "Propose") :
          /\ Step(r, OnPropose(Cur(r), r, m.p, m.z), TRUE)

RecvVote(r) ==
    /\ CanRecv(r, "Vote")
    /\ Len(cx[r].received_vote) < MaxVotes
    /\ \E m \in Deliverable(r, "Vote") :
          /\ Step(r, OnVote(Cur(r), r, m.v), TRUE)

RecvVoteCert(r) ==
    /\ CanRecv(r, "VoteCert")
    /\ \E m \in Deliverable(r, "VoteCert") :
          /\ Step(r, OnVoteCert(Cur(r), r, m.c, m.z), TRUE)

RecvDeliverPropose(r) ==
    /\ CanRecv(r, "DeliverPropose")
    /\ \E m \in Deliverable(r, "DeliverPropose") :
          /\ Step(r, OnDeliverPropose(Cur(r), r, m.sh, m.n, m.z), TRUE)

RecvDeliverVoteCert(r) ==
    /\ CanRecv(r, "DeliverVoteCert")
    /\ \E m \in Deliverable(r, "DeliverVoteCert") :
          /\ Step(r, OnDeliverVoteCert(Cur(r), r, m.sh, m.n, m.z), TRUE)

RecvReconstruct(r) ==
    /\ CanRecv(r, "Reconstruct")
    /\ \E m \in Deliverable(r, "Reconstruct") :
          /\ Len(cx[r].reconstruct_queue[m.n]) < MaxQueue
          /\ Step(r, OnReconstruct(Cur(r), r, m.sh, m.n, m.e), TRUE)

RecvCommit(r) ==
    /\ CanRecv(r, "Commit")
    /\ Len(cx[r].rand_beacon_queue[next_leader(cx[r])]) < N
    /\ \E m \in Deliverable(r, "Commit") :
          /\ Step(r, OnCommit(Cur(r), r, m.sh, m.c, m.z), TRUE)

RecvDeliverCommit(r) ==
    /\ CanRecv(r, "DeliverCommit")
    /\ \E m \in Deliverable(r, "DeliverCommit") :
          /\ Step(r, OnDeliverCommit(Cur(r), r, m.sh, m.n, m.z), TRUE)

RecvAck(r) ==
    /\ CanRecv(r, "Ack")
    /\ Len(cx[r].received_ack) < MaxAcks
    /\ \E m \in Deliverable(r, "Ack") :
          /\ Step(r, OnAck(Cur(r), r, m.v), TRUE)

TimerPropose(r) == CanFire(r, "Propose") /\ Step(r, PhasePropose(Cur(r), r), FALSE)

TimerDeliverPropose(r) ==
    CanFire(r, "DeliverPropose") /\ Step(r, PhaseDeliverPropose(Cur(r), r), FALSE)

TimerDeliverCommit(r) ==
    CanFire(r, "DeliverCommit") /\ Step(r, PhaseDeliverCommit(Cur(r), r), FALSE)

TimerVote(r) == CanFire(r, "Vote") /\ Step(r, PhaseVote(Cur(r), r), FALSE)

TimerCommit(r) == CanFire(r, "Commit") /\ Step(r, PhaseCommit(Cur(r), r), FALSE)

TimerEnd(r) ==
    /\ CanFire(r, "End")
    /\ epoch[r] < horizon
    /\ Step(r, PhaseEnd(Cur(r), r), FALSE)

Init ==
    /\ byz \in {{b} : b \in Replica}
    /\ up \in {{next_of(b)} : b \in byz}
    /\ cx = [r \in Replica |-> NewContext]
    /\ epoch = [r \in Replica |-> 0]
    /\ phase = [r \in Replica |-> "End"]
    /\ alive = [r \in Replica |-> TRUE]
    /\ out = [r \in Replica |-> <<>>]
    /\ net = {}
    /\ sent = NoneSent
    /\ end_vals = NoVals
    /\ clk = NoClock
    /\ chn = NoChannels
    /\ bc = NoBeacon
    /\ tp = NoTransport
    /\ listen \in Scenarios
    /\ horizon = MaxEpoch
    /\ craft = [r \in Replica |-> UNION {ByzCrafted[b] : b \in byz}]

Next ==
    \E r \in Replica :
        \/ RecvCertificate(r)
        \/ RecvPropose(r)
        \/ RecvVote(r)
        \/ RecvVoteCert(r)
        \/ RecvDeliverPropose(r)
        \/ RecvDeliverVoteCert(r)
        \/ RecvReconstruct(r)
        \/ RecvCommit(r)
        \/ RecvDeliverCommit(r)
        \/ RecvAck(r)
        \/ TimerPropose(r)
        \/ TimerDeliverPropose(r)
        \/ TimerDeliverCommit(r)
        \/ TimerVote(r)
        \/ TimerCommit(r)
        \/ TimerEnd(r)

Spec == Init /\ [][Next]_vars

(* Two correct replicas beside one Byzantine leader, for one epoch, with the  *)
(* proposal dispersal and the vote certificate as the traffic that arrives.   *)
InitPair ==
    /\ byz = {1}
    /\ up = Replica \ byz
    /\ cx = [r \in Replica |-> NewContext]
    /\ epoch = [r \in Replica |-> 0]
    /\ phase = [r \in Replica |-> "End"]
    /\ alive = [r \in Replica |-> TRUE]
    /\ out = [r \in Replica |-> <<>>]
    /\ net = {}
    /\ sent = NoneSent
    /\ end_vals = NoVals
    /\ clk = NoClock
    /\ chn = NoChannels
    /\ bc = NoBeacon
    /\ tp = NoTransport
    /\ listen = {"DeliverPropose", "VoteCert"}
    /\ horizon = 1
    /\ craft = [r \in Replica |->
                 {m \in ByzCrafted[1] :
                    \/ m.type = "VoteCert"
                    \/ /\ m.type = "DeliverPropose"
                       /\ m.sh.of.v.new_block = IF r = 0 THEN ByzBlockA(1) ELSE ByzBlockB(1)}]

NextPair ==
    \E r \in Replica :
        \/ RecvVoteCert(r)
        \/ RecvDeliverPropose(r)
        \/ TimerDeliverPropose(r)
        \/ TimerCommit(r)
        \/ TimerEnd(r)

SpecPair == InitPair /\ [][NextPair]_vars

(* Replica 2 beside the Byzantine replica 1: it follows in epoch 1, leads    *)
(* epoch 2, and closes it with the End handler that wraps last_leader to 0.  *)
InitRotate ==
    /\ byz = {1}
    /\ up = {2}
    /\ cx = [r \in Replica |-> NewContext]
    /\ epoch = [r \in Replica |-> 0]
    /\ phase = [r \in Replica |-> "End"]
    /\ alive = [r \in Replica |-> TRUE]
    /\ out = [r \in Replica |-> <<>>]
    /\ net = {}
    /\ sent = NoneSent
    /\ end_vals = NoVals
    /\ clk = NoClock
    /\ chn = NoChannels
    /\ bc = NoBeacon
    /\ tp = NoTransport
    /\ listen = {"DeliverPropose", "VoteCert", "Certificate"}
    /\ horizon = MaxRotate
    /\ craft = [r \in Replica |-> ByzCrafted[1]]

NextRotate ==
    \E r \in Replica :
        \/ RecvCertificate(r)
        \/ RecvVoteCert(r)
        \/ RecvDeliverPropose(r)
        \/ TimerPropose(r)
        \/ TimerDeliverPropose(r)
        \/ TimerDeliverCommit(r)
        \/ TimerCommit(r)
        \/ TimerEnd(r)

SpecRotate == InitRotate /\ [][NextRotate]_vars

(* Two correct replicas, 1 and 2, with replica 0 down, through epoch 1: each *)
(* reactor has its own timer, so the End handler of one may run before or    *)
(* after the other's, and the Commit message of the staging replica arrives  *)
(* at any time.                                                              *)
InitStage ==
    /\ byz = {}
    /\ up = {1, 2}
    /\ cx = [r \in Replica |-> NewContext]
    /\ epoch = [r \in Replica |-> 0]
    /\ phase = [r \in Replica |-> "End"]
    /\ alive = [r \in Replica |-> TRUE]
    /\ out = [r \in Replica |-> <<>>]
    /\ net = {}
    /\ sent = NoneSent
    /\ end_vals = NoVals
    /\ clk = NoClock
    /\ chn = NoChannels
    /\ bc = NoBeacon
    /\ tp = NoTransport
    /\ listen = {"Propose", "DeliverPropose", "Commit"}
    /\ horizon = 1
    /\ craft = [r \in Replica |-> {}]

NextStage ==
    \E r \in Replica :
        \/ RecvPropose(r)
        \/ RecvDeliverPropose(r)
        \/ RecvCommit(r)
        \/ TimerPropose(r)
        \/ TimerDeliverPropose(r)
        \/ TimerDeliverCommit(r)
        \/ TimerVote(r)
        \/ TimerEnd(r)

SpecStage == InitStage /\ [][NextStage]_vars

(* Replica 2 beside the Byzantine replica 1 with the clock running: time is  *)
(* counted in units of delta from the start of the reactor, a timer arm runs *)
(* no earlier than its deadline and time does not pass while one is due;     *)
(* messages arrive at any time.                                              *)
InitClock ==
    /\ byz = {1}
    /\ up = {2}
    /\ cx = [r \in Replica |-> NewContext]
    /\ epoch = [r \in Replica |-> 0]
    /\ phase = [r \in Replica |-> "End"]
    /\ alive = [r \in Replica |-> TRUE]
    /\ out = [r \in Replica |-> <<>>]
    /\ net = {}
    /\ sent = NoneSent
    /\ end_vals = NoVals
    /\ clk = [NoClock EXCEPT !.on = TRUE]
    /\ chn = NoChannels
    /\ bc = NoBeacon
    /\ tp = NoTransport
    /\ listen = {"Propose", "DeliverPropose", "VoteCert"}
    /\ horizon = MaxEpoch
    /\ craft = [r \in Replica |-> ByzCrafted[1]]

\* Time passes by one delta while no started reactor has its timer due.
Tick ==
    /\ clk.on
    /\ clk.now < MaxTime
    /\ \A r \in up : alive[r] => clk.now < clk.deadline[r]
    /\ clk' = [clk EXCEPT !.now = @ + 1]
    /\ UNCHANGED <<cx, epoch, phase, alive, out, net, byz, up, listen, horizon, craft,
                   sent, bc, tp, end_vals, chn>>

NextClock ==
    \/ Tick
    \/ \E r \in Replica :
          \/ RecvPropose(r)
          \/ RecvVoteCert(r)
          \/ RecvDeliverPropose(r)
          \/ TimerPropose(r)
          \/ TimerDeliverPropose(r)
          \/ TimerDeliverCommit(r)
          \/ TimerVote(r)
          \/ TimerCommit(r)
          \/ TimerEnd(r)

SpecClock == InitClock /\ [][NextClock]_vars

(* Replica 2 beside the Byzantine replica 1, with the senders of the         *)
(* reactor's two inbound channels dropped at any moment.  recv() on a closed *)
(* channel returns None once the messages already queued have been taken.    *)
InitClose ==
    /\ byz = {1}
    /\ up = {2}
    /\ cx = [r \in Replica |-> NewContext]
    /\ epoch = [r \in Replica |-> 0]
    /\ phase = [r \in Replica |-> "End"]
    /\ alive = [r \in Replica |-> TRUE]
    /\ out = [r \in Replica |-> <<>>]
    /\ net = {}
    /\ sent = NoneSent
    /\ end_vals = NoVals
    /\ clk = NoClock
    /\ chn = NoChannels
    /\ bc = NoBeacon
    /\ tp = NoTransport
    /\ listen = {"DeliverPropose", "VoteCert", "Certificate"}
    /\ horizon = MaxEpoch
    /\ craft = [r \in Replica |-> ByzCrafted[1]]

\* The transport drops the sender of net_recv.
CloseNet ==
    /\ ~chn.net_closed
    /\ chn' = [chn EXCEPT !.net_closed = TRUE]
    /\ UNCHANGED <<cx, epoch, phase, alive, out, net, byz, up, listen, horizon, craft,
                   sent, bc, tp, end_vals, clk>>

\* The client intake drops the sender of cli_recv.
CloseCli ==
    /\ ~chn.cli_closed
    /\ chn' = [chn EXCEPT !.cli_closed = TRUE]
    /\ UNCHANGED <<cx, epoch, phase, alive, out, net, byz, up, listen, horizon, craft,
                   sent, bc, tp, end_vals, clk>>

\* pmsg_opt = net_recv.recv() is None: std::process::exit(0)
NetNone(r) ==
    /\ r \in up /\ alive[r]
    /\ chn.net_closed
    /\ alive' = [alive EXCEPT ![r] = FALSE]
    /\ UNCHANGED <<cx, epoch, phase, out, net, byz, up, listen, horizon, craft,
                   sent, bc, tp, end_vals, clk, chn>>

\* _tx_opt = cli_recv.recv() is None: the arm has no body
CliNone(r) ==
    /\ r \in up /\ alive[r]
    /\ chn.cli_closed
    /\ chn' = [chn EXCEPT !.cli_none = TRUE]
    /\ UNCHANGED <<cx, epoch, phase, alive, out, net, byz, up, listen, horizon, craft,
                   sent, bc, tp, end_vals, clk>>

NextClose ==
    \/ CloseNet
    \/ CloseCli
    \/ \E r \in Replica :
          \/ NetNone(r)
          \/ CliNone(r)
          \/ RecvCertificate(r)
          \/ RecvVoteCert(r)
          \/ RecvDeliverPropose(r)
          \/ TimerPropose(r)
          \/ TimerDeliverPropose(r)
          \/ TimerDeliverCommit(r)
          \/ TimerCommit(r)
          \/ TimerEnd(r)

SpecClose == InitClose /\ [][NextClose]_vars

(* The beacon loop of the End handler over the values reconstructed in an     *)
(* epoch, the values being folded into the accumulator in any order.         *)
Values == 0 .. (NumValues - 1)

InitBeacon ==
    /\ cx = [r \in Replica |-> NewContext]
    /\ epoch = [r \in Replica |-> 0]
    /\ phase = [r \in Replica |-> "End"]
    /\ alive = [r \in Replica |-> TRUE]
    /\ out = [r \in Replica |-> <<>>]
    /\ net = {}
    /\ sent = NoneSent
    /\ end_vals = NoVals
    /\ clk = NoClock
    /\ chn = NoChannels
    /\ byz = {}
    /\ up = {}
    /\ listen = {}
    /\ horizon = 0
    /\ craft = [r \in Replica |-> {}]
    /\ \E n \in 0 .. MaxVals : \E vs \in [1 .. n -> Values] :
          bc = [vals |-> vs, folded |-> {}, hash |-> 0]
    /\ tp = NoTransport

\* One iteration of the loop, on a value not folded yet.
BeaconFold ==
    /\ \E i \in DOMAIN bc.vals \ bc.folded :
          bc' = [bc EXCEPT !.folded = @ \cup {i},
                           !.hash = Mix(@, ser_and_hash(bc.vals[i]))]
    /\ UNCHANGED <<cvars, tp>>

NextBeacon == BeaconFold

SpecBeacon == InitBeacon /\ [][NextBeacon]_vars

----------------------------------------------------------------------------
(* The transport of one replica: the reactor hands it (destination, msg)    *)
(* pairs, the dispatch task passes each to the send channel of one Peer or  *)
(* of every Peer, and the two tasks of a Peer carry it to the socket.  The  *)
(* reactor addresses N or another replica, never itself.                    *)

\* The keys of `peers`: every replica but this one.
Peers(me) == Replica \ {me}

\* The orders in which `for (_i, p) in &peers` may visit the map.
Orders(me) == {o \in [1 .. (N - 1) -> Peers(me)] : Range(o) = Peers(me)}

\* The dispatch that hands every pair to every peer.
TargetsAll(order, id) == order

\* if id == n { every peer, in the order of the map } else { peers[&id] }
Targets(order, id) == IF id = N THEN order ELSE <<id>>

\* The out_opt arm that does not start a new `buffers` after the batch.
OnOutKeep(pr, x) ==
    IF pr.ready
    THEN [pr EXCEPT !.buffers = Append(@, x), !.hold = Some(Append(pr.buffers, x))]
    ELSE [pr EXCEPT !.buffers = Append(@, x)]

\* The out_opt arm of the buffering task, up to the send of the batch.
OnOut(pr, x) ==
    IF pr.ready
    THEN [pr EXCEPT !.buffers = <<>>, !.hold = Some(Append(pr.buffers, x))]
    ELSE [pr EXCEPT !.buffers = Append(@, x)]

InitNet ==
    /\ cx = [r \in Replica |-> NewContext]
    /\ epoch = [r \in Replica |-> 0]
    /\ phase = [r \in Replica |-> "End"]
    /\ alive = [r \in Replica |-> TRUE]
    /\ out = [r \in Replica |-> <<>>]
    /\ net = {}
    /\ sent = NoneSent
    /\ end_vals = NoVals
    /\ clk = NoClock
    /\ chn = NoChannels
    /\ bc = NoBeacon
    /\ byz = {}
    /\ up = {}
    /\ listen = {}
    /\ horizon = 0
    /\ craft = [r \in Replica |-> {}]
    /\ \E me \in Replica : \E o \in Orders(me) :
          tp = [NoTransport EXCEPT !.me = me, !.order = o]

\* The reactor puts the next pair on the channel to the dispatch task.
Submit ==
    /\ tp.next <= MaxMsgs
    /\ Len(tp.wr) < ChanCap
    /\ \E dst \in Peers(tp.me) \cup {N} :
          tp' = [tp EXCEPT !.wr = Append(@, [dst |-> dst, id |-> tp.next]),
                           !.next = @ + 1]
    /\ UNCHANGED <<cvars, bc>>

\* opt_out = msg_wr_recv.recv(): the dispatch task takes a pair.
DispatchRecv ==
    /\ tp.cur = None
    /\ tp.wr # <<>>
    /\ tp' = [tp EXCEPT !.wr = Tail(@),
                        !.hist = Append(@, Head(tp.wr)),
                        !.cur = Some([id |-> Head(tp.wr).id,
                                      todo |-> Targets(tp.order, Head(tp.wr).dst)])]
    /\ UNCHANGED <<cvars, bc>>

\* p.send(msg).await: the dispatch task hands the message to the next peer.
DispatchSend ==
    /\ tp.cur # None
    /\ LET p == Head(tp.cur[1].todo)
           rest == Tail(tp.cur[1].todo)
       IN  /\ Len(tp.peer[p].chan) < ChanCap
           /\ tp' = [tp EXCEPT !.peer[p].chan = Append(@, tp.cur[1].id),
                               !.handed[p] = Append(@, tp.cur[1].id),
                               !.cur = IF rest = <<>> THEN None
                                       ELSE Some([id |-> tp.cur[1].id, todo |-> rest])]
    /\ UNCHANGED <<cvars, bc>>

\* out_opt = recv_out.recv(): the buffering task of peer p takes a message.
BufOut(p) ==
    /\ tp.peer[p].hold = None
    /\ tp.peer[p].chan # <<>>
    /\ tp' = [tp EXCEPT !.peer[p] =
                 OnOut([tp.peer[p] EXCEPT !.chan = Tail(@)], Head(tp.peer[p].chan))]
    /\ UNCHANGED <<cvars, bc>>

\* internal_ch_out_send.send(Batch(buffers)).await completes.
BufSend(p) ==
    /\ tp.peer[p].hold # None
    /\ Len(tp.peer[p].ich_out) < ChanCap
    /\ tp' = [tp EXCEPT !.peer[p].ich_out = Append(@, tp.peer[p].hold[1]),
                        !.peer[p].hold = None]
    /\ UNCHANGED <<cvars, bc>>

\* internal_ch_in_recv.recv() gives Ready.
BufReady(p) ==
    /\ tp.peer[p].hold = None
    /\ tp.peer[p].ich_in > 0
    /\ tp' = [tp EXCEPT !.peer[p].ich_in = @ - 1,
                        !.peer[p].ready = TRUE]
    /\ UNCHANGED <<cvars, bc>>

\* The writer task takes a batch and writes it with send_all.
WriterWrite(p) ==
    /\ tp.peer[p].wpc = "recv"
    /\ tp.peer[p].ich_out # <<>>
    /\ tp' = [tp EXCEPT !.peer[p].socket = @ \o Head(tp.peer[p].ich_out),
                        !.peer[p].ich_out = Tail(@),
                        !.peer[p].wpc = "ready"]
    /\ UNCHANGED <<cvars, bc>>

\* internal_ch_in_send.send(Ready).await completes.
WriterReady(p) ==
    /\ tp.peer[p].wpc = "ready"
    /\ tp.peer[p].ich_in < ChanCap
    /\ tp' = [tp EXCEPT !.peer[p].ich_in = @ + 1,
                        !.peer[p].wpc = "recv"]
    /\ UNCHANGED <<cvars, bc>>

NextNet ==
    \/ Submit
    \/ DispatchRecv
    \/ DispatchSend
    \/ \E p \in Replica : BufOut(p)
    \/ \E p \in Replica : BufSend(p)
    \/ \E p \in Replica : BufReady(p)
    \/ \E p \in Replica : WriterWrite(p)
    \/ \E p \in Replica : WriterReady(p)

SpecNet == InitNet /\ [][NextNet]_vars

----------------------------------------------------------------------------
(* Properties *)

\* C1: no two correct replicas store different blocks at the same height.
Agreement ==
    \A r1 \in up, r2 \in up :
        \A h \in DOMAIN cx[r1].by_ht \cap DOMAIN cx[r2].by_ht :
            cx[r1].by_ht[h] = cx[r2].by_ht[h]

\* C2: chain linearity: in the store of a correct replica, a block stored at
\* height h > 0 has prev equal to the hash of the block stored at height h - 1.
ChainLinear ==
    \A r \in up : \A h \in DOMAIN cx[r].by_ht :
        h > 0 => /\ (h - 1) \in DOMAIN cx[r].by_ht
                 /\ cx[r].by_ht[h].prev = cx[r].by_ht[h - 1].hash

\* C3: leader rotation: the End handler sets last_leader to (last_leader + 1)
\* mod N and no other step changes it, so after K End handlers, starting from
\* 0 at epoch 0, last_leader is K mod N: no skips, no repeats within N.
LeaderRotation ==
    /\ [](\A r \in Replica : cx[r].last_leader = epoch[r] % N)
    /\ [][\A r \in Replica :
            /\ TimerEnd(r) => cx'[r].last_leader = (cx[r].last_leader + 1) % N
            /\ ~TimerEnd(r) => cx'[r].last_leader = cx[r].last_leader]_vars

\* Three End handlers have run at a replica and its last_leader has wrapped to 0.
LeaderWrapped ==
    \E r \in up : epoch[r] = N /\ cx[r].last_leader = 0 /\ alive[r]

\* C4: the block store never loses an entry: a hash (a height) that maps to a
\* block maps to that same block in every later state; in particular by_ht[0]
\* is the genesis block in every reachable state.
StoreKeepsEntries ==
    /\ [](\A r \in up : 0 \in DOMAIN cx[r].by_ht /\ cx[r].by_ht[0] = GENESIS_BLOCK)
    /\ [][\A r \in up :
            /\ \A h \in DOMAIN cx[r].by_ht :
                  h \in DOMAIN cx'[r].by_ht /\ cx'[r].by_ht[h] = cx[r].by_ht[h]
            /\ \A k \in DOMAIN cx[r].by_hash :
                  k \in DOMAIN cx'[r].by_hash /\ cx'[r].by_hash[k] = cx[r].by_hash[k]]_vars

\* C5: the two indices of the store agree pointwise: whenever by_ht[h] = B,
\* by_hash[B.hash] = B.
IndicesAgree ==
    \A r \in up : \A h \in DOMAIN cx[r].by_ht :
        LET B == cx[r].by_ht[h]
        IN  B.hash \in DOMAIN cx[r].by_hash /\ cx[r].by_hash[B.hash] = B

\* C6: when the Vote or the Commit deadline fires while propose_gatherer holds
\* fewer than N - f shards, the replica does not abort: it sends nothing,
\* leaves the block store as it is and moves to phase End.
NoAbortBelowThreshold ==
    [][\A r \in up :
          (/\ cx[r].propose_gatherer.shard_num < N - F
           /\ TimerVote(r) \/ TimerCommit(r))
          => /\ alive'[r]
             /\ phase'[r] = "End"
             /\ out'[r] = <<>>
             /\ cx'[r].by_ht = cx[r].by_ht
             /\ cx'[r].by_hash = cx[r].by_hash]_vars

\* C7: epoch progress: whatever is lost, delayed or never sent, the End
\* handler runs again at every replica.  The phase timer that brings it about
\* lives in the reactor's loop, so the loop of a started replica never ends.
ReactorKeepsRunning ==
    \A r \in up : alive[r]

\* C8: when the DeliverPropose deadline of a non-leader fires and no Propose
\* has been received, the replica sends no DeliverPropose, leaves
\* propose_gatherer unchanged and moves to phase DeliverCommit.
QuietDeliverPropose ==
    [][\A r \in up :
          (/\ cx[r].received_propose = None
           /\ r # cx[r].last_leader
           /\ TimerDeliverPropose(r))
          => /\ alive'[r]
             /\ out'[r] = <<>>
             /\ cx'[r].propose_gatherer = cx[r].propose_gatherer
             /\ phase'[r] = "DeliverCommit"]_vars

\* C9: idempotent dispersal: within an epoch, once propose_share_sent (resp.
\* vote_cert_share_sent, commit_share_sent) is true, no handler of the replica
\* broadcasts its own DeliverPropose (resp. DeliverVoteCert, DeliverCommit)
\* shard again.
OwnShardOnce ==
    [][\A r \in up :
          (cx'[r] # cx[r] \/ phase'[r] # phase[r] \/ out'[r] # out[r])
          => \A i \in DOMAIN out'[r] :
                LET m == out'[r][i].msg
                IN  /\ ~(/\ cx[r].propose_share_sent
                         /\ m.type = "DeliverPropose" /\ m.n = r)
                    /\ ~(/\ cx[r].vote_cert_share_sent
                         /\ m.type = "DeliverVoteCert" /\ m.n = r)
                    /\ ~(/\ cx[r].commit_share_sent
                         /\ m.type = "DeliverCommit" /\ m.n = r)]_vars

BadCertDropped ==
    [][\A r \in up : \A m \in Deliverable(r, "Certificate") :
          (/\ CanRecv(r, "Certificate")
           /\ \E i \in DOMAIN m.c.votes : ~m.c.votes[i].ok
           /\ Step(r, OnCertificate(Cur(r), r, m.c), TRUE))
          => /\ cx'[r].highest_cert = cx[r].highest_cert
             /\ cx'[r].highest_height = cx[r].highest_height]_vars

\* C12: in every epoch a replica sends at most one Vote, and the leader of the
\* epoch none; a Vote is sent only by a non-leader in phase Vote, to
\* last_leader, over the recomputed hash of the block reconstructed from
\* propose_gatherer.
OneVotePerEpoch ==
    /\ [](\A r \in up :
            /\ sent[r]["Vote"] <= 1
            /\ r = cx[r].last_leader => sent[r]["Vote"] = 0)
    /\ [][\A r \in up :
            (cx'[r] # cx[r] \/ phase'[r] # phase[r] \/ out'[r] # out[r])
            => \A i \in DOMAIN out'[r] :
                  out'[r][i].msg.type = "Vote"
                  => LET bytes == reconstruct(cx[r].propose_gatherer)
                     IN  /\ phase[r] = "Vote"
                         /\ epoch'[r] = epoch[r]
                         /\ r # cx[r].last_leader
                         /\ out'[r][i].dst = cx[r].last_leader
                         /\ bytes # None
                         /\ out'[r][i].msg.v.origin = r
                         /\ out'[r][i].msg.v.msg = HashOf(bytes[1].v.new_block)]_vars

\* A non-leader has sent its Vote of the epoch and waits for the End deadline.
VoteSent ==
    \E r \in up :
        /\ sent[r]["Vote"] = 1 /\ phase[r] = "End" /\ alive[r]
        /\ [src |-> r, dst |-> cx[r].last_leader,
             msg |-> [type |-> "Vote", v |-> MkVote(HashOf(ByzBlockB(cx[r].last_leader)), r, TRUE)]]
              \in net

\* C13: beacon determinism: the beacon is the XOR of the hashes of the
\* reconstructed values, the same for every order in which they are folded
\* into the zero-initialised accumulator.
BeaconDeterminism ==
    bc.folded = DOMAIN bc.vals => bc.hash = Beacon(bc.vals)

\* Three values, two of them different, have been folded and the beacon is
\* not zero.
BeaconFolded ==
    /\ Len(bc.vals) = 3 /\ bc.folded = DOMAIN bc.vals
    /\ bc.vals[1] # bc.vals[2]
    /\ bc.hash # 0

\* The gatherers of a Context.
Gatherers(c) == {c.propose_gatherer, c.vote_cert_gatherer, c.commit_gatherer}

\* C16: gatherer no-double-counting: shard_num is the number of distinct
\* senders in shards, all collected shards belong to the dispersal whose
\* authenticator was recorded first, and a DeliverPropose share from a sender
\* that already contributed, or with another authenticator than the recorded
\* one, leaves propose_gatherer unchanged.
NoDoubleCounting ==
    /\ [](\A r \in up : \A g \in Gatherers(cx[r]) :
            /\ g.shard_num = Cardinality(g.senders)
            /\ g.shard_num = Len(g.shards)
            /\ {g.shards[i].idx : i \in DOMAIN g.shards} = g.senders
            /\ g.shard_num > 0 => g.authenticator # None
            /\ \A i \in DOMAIN g.shards : g.shards[i].of = g.authenticator[1].of)
    /\ [][\A r \in up :
            CanRecv(r, "DeliverPropose") /\ cx'[r].propose_gatherer # cx[r].propose_gatherer
            => \A m \in Deliverable(r, "DeliverPropose") :
                  (\/ m.n \in cx[r].propose_gatherer.senders
                   \/ cx[r].propose_gatherer.authenticator \notin {None, Some(m.z)})
                  => ~Step(r, OnDeliverPropose(Cur(r), r, m.sh, m.n, m.z), TRUE)]_vars

\* A gatherer holds N - f shards of one dispersal while a share of another
\* dispersal and a share of a sender it has counted are still deliverable.
GathererFilled ==
    \E r \in up :
        /\ cx[r].propose_gatherer.shard_num >= N - F
        /\ "DeliverPropose" \in listen
        /\ \E m \in Deliverable(r, "DeliverPropose") :
              m.n \in cx[r].propose_gatherer.senders
        /\ \E m \in Deliverable(r, "DeliverPropose") :
              Some(m.z) # cx[r].propose_gatherer.authenticator

\* C17: phase ordering: the deadlines take a non-leader through End,
\* DeliverPropose, DeliverCommit, Vote, End and the leader through End,
\* Propose, DeliverCommit, End; phase Commit is entered only by the Vote and
\* VoteCert handlers and left only for End; one phase is current at a time.
PhaseOrder ==
    /\ [](\A r \in Replica : phase[r] \in Phases)
    /\ [][\A r \in up :
            phase'[r] # phase[r]
            => CASE phase'[r] = "Commit" -> RecvVote(r) \/ RecvVoteCert(r)
                 [] phase'[r] # "Commit" /\ phase[r] = "End" ->
                       /\ TimerEnd(r)
                       /\ phase'[r] = IF r = cx'[r].last_leader
                                      THEN "Propose" ELSE "DeliverPropose"
                 [] phase'[r] # "Commit" /\ phase[r] = "Propose" ->
                       TimerPropose(r) /\ phase'[r] = "DeliverCommit"
                 [] phase'[r] # "Commit" /\ phase[r] = "DeliverPropose" ->
                       TimerDeliverPropose(r) /\ phase'[r] = "DeliverCommit"
                 [] phase'[r] # "Commit" /\ phase[r] = "DeliverCommit" ->
                       /\ TimerDeliverCommit(r)
                       /\ phase'[r] = IF r = cx[r].last_leader THEN "End" ELSE "Vote"
                 [] phase'[r] # "Commit" /\ phase[r] = "Vote" ->
                       TimerVote(r) /\ phase'[r] = "End"
                 [] phase'[r] # "Commit" /\ phase[r] = "Commit" ->
                       TimerCommit(r) /\ phase'[r] = "End"]_vars

\* A replica has led an epoch through Propose and DeliverCommit to End.
LeaderRoundDone ==
    \E r \in up :
        /\ alive[r] /\ phase[r] = "End" /\ r = cx[r].last_leader
        /\ cx[r].propose_share_sent /\ epoch[r] > 0
        /\ cx[r].by_ht = NewContext.by_ht

OnlyLeaderAccumulates ==
    \A r \in up :
        r # cx[r].last_leader
        => cx[r].received_vote = <<>> /\ sent[r]["VoteCert"] = 0

\* C20: highest_cert and highest_height change only in a step of the
\* Certificate handler taken while myid = last_leader and phase = Propose;
\* every other step leaves them unchanged, and highest_height never decreases.
HighestFrame ==
    [][\A r \in up :
         /\ cx'[r].highest_height >= cx[r].highest_height
         /\ (\/ cx'[r].highest_cert # cx[r].highest_cert
             \/ cx'[r].highest_height # cx[r].highest_height)
            => /\ r = cx[r].last_leader
               /\ phase[r] = "Propose"
               /\ RecvCertificate(r)
               /\ cx'[r].highest_height > cx[r].highest_height]_vars

\* A leader took a certificate in phase Propose and has kept it through the
\* later phases of its epoch.
HighestKept ==
    \E r \in up :
        /\ alive[r] /\ r = cx[r].last_leader /\ phase[r] = "End"
        /\ cx[r].highest_height >= 0
        /\ cx[r].propose_share_sent

\* The ids, in order, of the dispatched pairs addressed to peer p or to all.
Due(p) ==
    LET ToP(e) == e.dst \in {N, p}
        due == SelectSeq(tp.hist, ToP)
    IN  [i \in DOMAIN due |-> due[i].id]

\* C14: transport addressing: a pair with destination N is handed exactly
\* once to every peer other than self, a pair with destination d < N to peer
\* d only; nothing is handed to self.
Addressing ==
    \A p \in Replica :
        LET pending == tp.cur # None /\ p \in Range(tp.cur[1].todo)
        IN  tp.handed[p] =
              IF p = tp.me THEN <<>>
              ELSE IF pending THEN SubSeq(Due(p), 1, Len(Due(p)) - 1)
              ELSE Due(p)

\* A broadcast and a message to one peer have both been dispatched in full.
AddressedBoth ==
    /\ tp.cur = None /\ tp.wr = <<>> /\ Len(tp.hist) = 2
    /\ tp.hist[1].dst = N /\ tp.hist[2].dst # N
    /\ \A p \in Peers(tp.me) :
          tp.handed[p] = IF p = tp.hist[2].dst THEN <<1, 2>> ELSE <<1>>

RECURSIVE Flat(_)
\* The messages of a queue of batches, in order.
Flat(q) == IF q = <<>> THEN <<>> ELSE Head(q) \o Flat(Tail(q))

\* C15: per-peer FIFO: what has been written to a peer's socket, followed by
\* what its tasks and channels still hold, is the sequence of messages handed
\* to its send channel: nothing is lost, duplicated or reordered.
PeerFifo ==
    \A p \in Peers(tp.me) :
        LET pr == tp.peer[p]
        IN  pr.socket \o Flat(pr.ich_out)
              \o (IF pr.hold = None THEN <<>> ELSE pr.hold[1])
              \o pr.buffers \o pr.chan
            = tp.handed[p]

\* Every message handed to a peer has been written, the last one while a
\* Ready of an earlier batch was still unread.
WrittenInOrder ==
    \E p \in Peers(tp.me) :
        /\ Len(tp.handed[p]) = MaxMsgs
        /\ tp.peer[p].socket = tp.handed[p]
        /\ tp.peer[p].ich_in = ChanCap

\* C21: propose construction: the block the leader proposes has author myid,
\* height highest_height + 1, prev the msg of the first vote of highest_cert
\* (the all-zero hash when highest_cert is empty) and the acks received_ack
\* held before the handler; the proposal carries highest_cert and the current
\* epoch; afterwards received_ack is empty and the phase is DeliverCommit.
ProposeConstruction ==
    [][\A r \in up :
         phase[r] = "Propose" /\ phase'[r] # "Propose" /\ phase'[r] # "Commit"
         => /\ phase'[r] = "DeliverCommit"
            /\ cx'[r].received_ack = <<>>
            /\ Len(out'[r]) > 0
            /\ out'[r][1].dst = N
            /\ out'[r][1].msg.type = "Propose"
            /\ LET p == out'[r][1].msg.p
                   b == p.new_block
               IN  /\ b.author = r
                   /\ b.height = cx[r].highest_height + 1
                   /\ b.prev = IF cx[r].highest_cert.votes = <<>> THEN EMPTY_HASH
                               ELSE cx[r].highest_cert.votes[1].msg
                   /\ b.acks = cx[r].received_ack
                   /\ p.certificate = cx[r].highest_cert
                   /\ p.epoch = epoch[r]
                   /\ cx'[r].received_propose = Some(p)]_vars

\* A leader has proposed a block that carries an ack it had received.
ProposedWithAcks ==
    \E r \in up : \E e \in net :
        /\ e.src = r /\ e.msg.type = "Propose"
        /\ e.msg.p.new_block.acks # <<>>
        /\ e.msg.p.new_block.author = r
        /\ phase[r] = "DeliverCommit" /\ cx[r].received_ack = <<>>

\* C22: End postcondition: epoch starts at 0, only the End handler changes it
\* and it adds exactly 1; right after the End handler the three gatherers
\* are empty, received_vote is empty and the three *_share_sent flags are
\* false.
EndPostcondition ==
    /\ \A r \in Replica : epoch[r] = 0
    /\ [][\A r \in up :
            /\ epoch'[r] # epoch[r] => phase[r] = "End" /\ TimerEnd(r)
            /\ phase[r] = "End" /\ phase'[r] \notin {"End", "Commit"}
               => /\ epoch'[r] = epoch[r] + 1
                  /\ cx'[r].propose_gatherer = NewGatherer
                  /\ cx'[r].vote_cert_gatherer = NewGatherer
                  /\ cx'[r].commit_gatherer = NewGatherer
                  /\ cx'[r].received_vote = <<>>
                  /\ ~cx'[r].propose_share_sent
                  /\ ~cx'[r].vote_cert_share_sent
                  /\ ~cx'[r].commit_share_sent]_vars

\* A replica that gathered votes and shards in an epoch has run the End
\* handler that closes it.
EndCleared ==
    \E r \in up :
        /\ alive[r] /\ epoch[r] = 2 /\ phase[r] \in {"Propose", "DeliverPropose"}
        /\ cx[r].propose_gatherer = NewGatherer /\ cx[r].received_vote = <<>>
        /\ \E e \in net : e.src = r /\ e.msg.type = "VoteCert"

\* C23: slots cleared at Commit: right after the Commit phase handler
\* received_propose, received_certificate, received_commit and their
\* signatures are all unset.
SlotsClearedAtCommit ==
    [][\A r \in up :
         phase[r] = "Commit" /\ phase'[r] = "End"
         => /\ cx'[r].received_propose = None
            /\ cx'[r].received_propose_sign = None
            /\ cx'[r].received_certificate = None
            /\ cx'[r].received_certificate_sign = None
            /\ cx'[r].received_commit = None
            /\ cx'[r].received_commit_sign = None]_vars

\* C24: dispersing the commit vector touches only the commit dispersal: the
\* DeliverCommit phase handler with received_commit set puts the replica's
\* own commit shard into commit_gatherer and leaves propose_gatherer
\* unchanged, and propose_gatherer only ever holds shards of a proposal.
CommitDispersalFrame ==
    /\ [](\A r \in up : \A i \in DOMAIN cx[r].propose_gatherer.shards :
              cx[r].propose_gatherer.shards[i].of.kind = "Propose")
    /\ [][\A r \in up :
            phase[r] = "DeliverCommit" /\ phase'[r] \in {"End", "Vote"}
            => /\ cx'[r].propose_gatherer = cx[r].propose_gatherer
               /\ cx[r].received_commit # None
                  => r \in cx'[r].commit_gatherer.senders]_vars

\* C25: ack on threshold: a replica sends at most one Ack per epoch, to
\* next_leader and never to itself, in the DeliverCommit step that brings
\* commit_gatherer to N - f shards; later DeliverCommit messages send none.
AckOnThreshold ==
    /\ [](\A r \in up : sent[r]["Ack"] <= 1)
    /\ [][\A r \in up :
            (cx'[r] # cx[r] \/ phase'[r] # phase[r] \/ out'[r] # out[r])
            => \A i \in DOMAIN out'[r] :
                  out'[r][i].msg.type = "Ack"
                  => /\ out'[r][i].dst = next_leader(cx[r])
                     /\ out'[r][i].dst # r
                     /\ cx[r].commit_gatherer.shard_num = N - F - 1
                     /\ cx'[r].commit_gatherer.shard_num = N - F]_vars

\* C26: reconstruct queues are epoch-monotone: Reconstruct(share, i, e) is
\* appended to reconstruct_queue[i] when the queue is empty or e is at least
\* the epoch of its last entry and otherwise changes nothing, so the epochs
\* in every queue never decrease from front to back.
QueuesMonotone ==
    /\ [](\A r \in up : \A i \in Replica :
              LET q == cx[r].reconstruct_queue[i]
              IN  \A j, k \in DOMAIN q : j <= k => q[j][2] <= q[k][2])
    /\ [][\A r \in up : \A m \in Deliverable(r, "Reconstruct") :
            LET q == cx[r].reconstruct_queue[m.n]
            IN  Step(r, OnReconstruct(Cur(r), r, m.sh, m.n, m.e), TRUE)
                => cx'[r].reconstruct_queue =
                      IF q = <<>> \/ m.e >= q[Len(q)][2]
                      THEN [cx[r].reconstruct_queue EXCEPT ![m.n] = Append(q, <<m.sh, m.e>>)]
                      ELSE cx[r].reconstruct_queue]_vars

\* A queue holds shares of two epochs, the earlier one in front.
QueueTwoEpochs ==
    \E r \in up : \E i \in Replica :
        LET q == cx[r].reconstruct_queue[i]
        IN  Len(q) = 2 /\ q[1][2] < q[2][2]

\* C30: commit rule: a block enters the store only in the Commit phase
\* handler of a replica that holds, in received_certificate, a certificate of
\* f + 1 verified votes whose msg is the hash of that block.
CommitRule ==
    [][\A r \in up : \A h \in DOMAIN cx'[r].by_hash :
         (h \notin DOMAIN cx[r].by_hash \/ cx'[r].by_hash[h] # cx[r].by_hash[h])
         => /\ phase[r] = "Commit"
            /\ cx[r].received_certificate # None
            /\ LET c == cx[r].received_certificate[1]
               IN  /\ Len(c.votes) = F + 1
                   /\ \A i \in DOMAIN c.votes : c.votes[i].msg = h /\ c.votes[i].ok]_vars

\* The shares of epoch e in queue q, in order.
SharesAt(q, e) ==
    LET At(x) == x[2] = e
        sel == SelectSeq(q, At)
    IN  [k \in DOMAIN sel |-> sel[k][1]]

\* C27: beacon consumption: the End handler of epoch e removes from every
\* reconstruct_queue[i] the entries of epochs below e and those of epoch e,
\* so that only entries of later epochs stay, and author i contributes a
\* reconstructed value exactly when at least N - f entries of epoch e were
\* collected from its queue.
BeaconConsumption ==
    [][\A r \in up :
         epoch'[r] = epoch[r] + 1
         => LET e == epoch[r]
                q == cx[r].reconstruct_queue
                After(x) == x[2] > e
                authors == {i \in Replica : Len(SharesAt(q[i], e)) >= N - F}
            IN  /\ \A i \in Replica :
                      cx'[r].reconstruct_queue[i] = SelectSeq(q[i], After)
                /\ Len(end_vals'[r]) = Cardinality(authors)
                /\ Range(end_vals'[r]) =
                      {evss_reconstruct(SharesAt(q[i], e)) : i \in authors}]_vars

\* The End handler that closes epoch 1 has reconstructed the value of an
\* author from the shares of that epoch.
BeaconDrawn ==
    \E r \in up : epoch[r] = 2 /\ end_vals[r] # <<>>

\* C28: End fires at the epoch boundary: every entry into phase End sets the
\* deadline begin + 11 delta epoch, and the End handler that closes epoch e
\* runs at begin + 11 delta e, neither earlier nor later, whatever messages
\* arrive during the epoch.
EndAtBoundary ==
    /\ [][\A r \in up :
            phase[r] # "End" /\ phase'[r] = "End"
            => clk'.deadline[r] = begin + 11 * epoch[r]]_vars
    /\ [][\A r \in up :
            epoch'[r] = epoch[r] + 1 => clk.now = begin + 11 * epoch[r]]_vars

\* C29: fatal channel close: once recv() on the protocol-message channel or
\* on the client-transaction channel has returned None, the reactor has
\* terminated: it is not running and changes no consensus state any more.
FatalChannelClose ==
    /\ [](chn.cli_none => \A r \in up : ~alive[r])
    /\ [][\A r \in up : NetNone(r) => ~alive'[r]]_vars

\* C31: every certificate a replica builds from received_vote and broadcasts
\* in VoteCert is a valid quorum: f + 1 votes of f + 1 distinct origins over
\* one msg, each verifying under its origin's key; a duplicated, mismatching
\* or unverifiable vote never counts towards the f + 1.
CertificateIsQuorum ==
    \A r \in up : \A e \in net :
        e.src = r /\ e.msg.type = "VoteCert"
        => LET votes == e.msg.c.votes
           IN  /\ Len(votes) = F + 1
               /\ \A i, j \in DOMAIN votes :
                     /\ votes[i].ok
                     /\ votes[i].msg = votes[j].msg
                     /\ i # j => votes[i].origin # votes[j].origin

\* C32: no stale proposal is dispersed: the shards a replica broadcasts in the
\* DeliverPropose phase handler of epoch e are shards of a proposal whose
\* epoch field is e and whose block was authored by the leader of epoch e; a
\* proposal stored in an earlier epoch that did not reach phase Commit is not
\* dispersed again.
NoStaleDispersal ==
    [][\A r \in up :
         phase[r] = "DeliverPropose" /\ phase'[r] = "DeliverCommit"
         => \A o \in Range(out'[r]) :
               o.msg.type = "DeliverPropose"
               => LET p == o.msg.sh.of.v
                  IN  /\ p.epoch = epoch[r]
                      /\ p.new_block.author = cx[r].last_leader]_vars

\* C33: beacon shares are filed under their author: every share held in
\* rand_beacon_queue[i] of a replica was produced by replica i, whether the
\* Commit message of the staging replica is handled before or after the
\* recipient's own End handler has advanced last_leader.
SharesFiledByAuthor ==
    \A r \in up : \A i \in Replica :
        \A k \in DOMAIN cx[r].rand_beacon_queue[i] :
            cx[r].rand_beacon_queue[i][k][1] = i

\* C34: the reactor never unicasts to itself or to a replica that does not
\* exist: every (destination, msg) pair a replica emits has destination N
\* (broadcast) or a destination in 0 .. N - 1 other than the replica itself,
\* for Vote, Ack, Certificate and Commit as for every other message.
UnicastAddressing ==
    \A r \in up : \A e \in net :
        e.src = r => e.dst = N \/ (e.dst \in Replica /\ e.dst # r)

\* A replica has unicast a Certificate to the leader, a Commit to each other
\* replica and a Vote to the leader.
UnicastsSent ==
    \E r \in up :
        /\ \E e \in net : e.src = r /\ e.msg.type = "Certificate" /\ e.dst = cx[r].last_leader
        /\ \A i \in Replica \ {r} :
              \E e \in net : e.src = r /\ e.msg.type = "Commit" /\ e.dst = i
        /\ \E e \in net : e.src = r /\ e.msg.type = "Vote" /\ e.dst = cx[r].last_leader

====
